---- MODULE Spec2Model ----
(***************************************************************************)
(* Model of the prime crate: the primality oracle of src/calculator.rs     *)
(* (is_prime, par_is_prime, ignorant_is_prime) and the generators of       *)
(* src/generator.rs (prime_generator_map, par_prime_generator_map,         *)
(* multi_prime_generator_map, multi_prime_generator_map_chunks).           *)
(*                                                                         *)
(* One call is made at a time.  The sequential generators run in one       *)
(* action; the two rayon generators and par_is_prime expose their parallel *)
(* phase: the range is split into contiguous pieces, one per worker, and   *)
(* the workers' tests interleave freely until the join.                    *)
(*                                                                         *)
(* Spec       single calls with every argument of the bounds below;        *)
(* SpecChain  a caller feeding each returned list into the next call;      *)
(* SpecNarrow the chunked generator on a scaled-down integer type, with    *)
(*            chunk sizes up to the maximum of the type;                   *)
(* SpecCycle  the chunked generator with pre_cycle / post_cycle hooks.     *)
(* SpecFile   examples/file_generator.rs: seeding or import of primes.txt, *)
(*            the chunk loop and the Ctrl-C flag.                          *)
(***************************************************************************)
EXTENDS Integers, Sequences, FiniteSets

\* ------------------------------------------------------------------ bounds
\* Largest `max` passed to a generator.
MaxMax == 26
\* Largest candidate passed to the oracle.
MaxN == 50
\* Chunk sizes 0..MaxChunk are tried, besides max and max + ChunkExtra.
MaxChunk == 25
\* The "max + 100" chunk size of the chunking-invariance property.
ChunkExtra == 100
\* Number of rayon workers sharing one parallel phase.
Workers == 2
\* Spare capacity (capacity - len) a Vec may carry into reserve().
MaxSlack == 1
\* Number of times a caller feeds a returned list into a further call.
MaxResume == 1
\* Largest `max` of a call in a chain of generator calls.
ChainMax == 26
\* Chunk sizes 1..ChainChunk are tried in a chain, besides max + ChunkExtra.
ChainChunk == 9
\* Largest `until` and chunk_size of a generate_chunks call with hooks.
CycleMax == 30
CycleChunk == 10
\* Width in bits of the scaled-down integer type of the overflow model, and
\* the number of chunk sizes tried just below its maximum.
NarrowBits == 6
NarrowSpan == 3
\* File generator: the largest chunk_size the program is built with, the
\* frontier from which no further chunk is begun, and the number of times
\* the program is started again on the file it left.
FileChunk == 8
FileMax == 20
FileRuns == 1

\* --------------------------------------------------------------- integers
\* u64::MAX / usize::MAX, the value of `f64::INFINITY as u64`.  TLC's
\* integers are 32 bits wide, so the maximum of the 64-bit types is
\* represented by the largest value TLC can hold; the model only uses its
\* order relative to the small values and to the allocation limit.
U64Max == 2147483647

\* Vec<u64>::reserve panics ("capacity overflow") when the capacity needed
\* exceeds isize::MAX bytes, i.e. (usize::MAX / 2) / 8 elements.
AllocLimit == U64Max \div 16

saturating_sub(a, b) == IF a > b THEN a - b ELSE 0

\* a + b on an unsigned type whose maximum is word_max: the sum leaves the
\* type when it exceeds word_max; a build without overflow checks then keeps
\* the sum modulo word_max + 1, a build with them panics.
wrapping_add(a, b, word_max) ==
    IF a + b > word_max
    THEN [overflow |-> TRUE, value |-> (a + b) - word_max - 1]
    ELSE [overflow |-> FALSE, value |-> a + b]

\* a.saturating_add(b) on u64
saturating_add(a, b) == IF a > U64Max - b THEN U64Max ELSE a + b

\* The maximum of the scaled-down unsigned type, 2^NarrowBits - 1.  Like
\* u64::MAX (and unlike 2^5 - 1 or 2^7 - 1) it is composite, so no prime p
\* of the type has p + 2 leave the type.
NarrowMax == 2 ^ NarrowBits - 1

\* n.integer_sqrt(): the largest r with r * r <= n.
integer_sqrt(n) == CHOOSE r \in 0..n : r * r <= n /\ (r + 1) * (r + 1) > n

\* known_primes.last().cloned().unwrap_or(1)
last_or_1(known_primes) ==
    IF Len(known_primes) = 0 THEN 1 ELSE known_primes[Len(known_primes)]

\* ----------------------------------------------------------------- oracle
\* slice::binary_search: Ok(index) of a match, else Err(insertion point).
\* Indices are 0-based as in the source; s[mid + 1] is the element at mid.
RECURSIVE binary_search_loop(_, _, _, _)
binary_search_loop(s, x, left, right) ==
    IF left >= right
    THEN [ok |-> FALSE, index |-> left]
    ELSE LET mid == left + ((right - left) \div 2)
         IN  IF s[mid + 1] < x THEN binary_search_loop(s, x, mid + 1, right)
             ELSE IF s[mid + 1] > x THEN binary_search_loop(s, x, left, mid)
             ELSE [ok |-> TRUE, index |-> mid]

binary_search(s, x) == binary_search_loop(s, x, 0, Len(s))

\* A slip in the match arm: an exact hit at sqr is left out of the divisors.
last_index_hit_excluded(known_primes, sqr) ==
    binary_search(known_primes, sqr).index

\* match known_primes.binary_search(&sqr) { Ok(i) => i + 1, Err(i) => i }
last_index(known_primes, sqr) ==
    LET r == binary_search(known_primes, sqr)
    IN  IF r.ok THEN r.index + 1 ELSE r.index

\* A slip in the slice bound: the last divisor of the prefix is not tried.
RECURSIVE no_divisor_last_skipped(_, _, _, _)
no_divisor_last_skipped(n, known_primes, i, last) ==
    IF i >= last THEN TRUE
    ELSE IF n % known_primes[i] = 0 THEN FALSE
    ELSE no_divisor_last_skipped(n, known_primes, i + 1, last)

\* for i in known_primes[0..last_index].iter() { if n % *i == 0 { return false } } true
RECURSIVE no_divisor_from(_, _, _, _)
no_divisor_from(n, known_primes, i, last) ==
    IF i > last THEN TRUE
    ELSE IF n % known_primes[i] = 0 THEN FALSE
    ELSE no_divisor_from(n, known_primes, i + 1, last)

is_prime(n, known_primes) ==
    IF n = 0 \/ n = 1
    THEN FALSE
    ELSE LET sqr == integer_sqrt(n)
         IN  no_divisor_from(n, known_primes, 1, last_index(known_primes, sqr))

\* !known_primes[0..last_index].par_iter().any(|i| n % i == 0): whichever
\* worker reports first, `any` is true exactly when some element divides n.
par_is_prime(n, known_primes) ==
    IF n = 0 \/ n = 1
    THEN FALSE
    ELSE LET sqr == integer_sqrt(n)
         IN  ~ \E i \in 1..last_index(known_primes, sqr) : n % known_primes[i] = 0

\* A slip in the join: `any` answers once the first worker has finished its
\* piece.  pending is the set of workers with elements left to test.
any_done_first_worker(hit, pending) == hit \/ Cardinality(pending) < Workers

\* ParallelIterator::any: it answers true as soon as a worker has reported a
\* match (the other workers stop early), false once every worker has
\* finished its piece without one.
any_done(hit, pending) == hit \/ pending = {}

\* A slip in the None arm: 2 is added whatever the parity of current_num.
ignorant_step_always_two(current_num) == current_num + 2

\* None => if current_num % 2 != 0 { current_num += 2 } else { current_num += 1 }
ignorant_step(current_num) ==
    IF current_num % 2 # 0 THEN current_num + 2 ELSE current_num + 1

\* IgnorantPrimeIterator::new(max, known_primes).any(|i| n % i == 0):
\* next() takes the listed element at current_index (0-based) while there
\* is one, afterwards steps current_num; it yields current_num while that is
\* <= max, and its first None ends the iteration.
RECURSIVE ignorant_any(_, _, _, _, _)
ignorant_any(n, known_primes, max, current_index, current_num) ==
    LET listed == current_index < Len(known_primes)
        num == IF listed THEN known_primes[current_index + 1]
               ELSE ignorant_step(current_num)
        index == IF listed THEN current_index + 1 ELSE current_index
    IN  IF num > max THEN FALSE
        ELSE IF n % num = 0 THEN TRUE
        ELSE ignorant_any(n, known_primes, max, index, num)

ignorant_is_prime(n, known_primes) ==
    IF n = 2 THEN TRUE
    ELSE IF n % 2 = 0 \/ n = 1 THEN FALSE
    ELSE ~ignorant_any(n, known_primes, integer_sqrt(n), 0, 1)

\* -------------------------------------------------------------- generators
\* (x * 1.1055 / x.ln()) as u64, tabulated for n = 1..65 with f64
\* arithmetic.  ln(1) = 0, so n = 1 divides by zero: the quotient is
\* +infinity and the cast saturates to u64::MAX.  n = 0 gives -0.0, cast 0.
GaussTable ==
    << U64Max, 3, 3, 3, 3, 3, 3, 4, 4, 4, 5, 5, 5, 5, 6, 6, 6, 6, 7, 7, 7, 7,
       8, 8, 8, 8, 9, 9, 9, 9, 9, 10, 10, 10, 10, 11, 11, 11, 11, 11, 12, 12,
       12, 12, 13, 13, 13, 13, 13, 14, 14, 14, 14, 14, 15, 15, 15, 15, 15, 16,
       16, 16, 16, 17, 17 >>

gauss_function(n) == IF n = 0 THEN 0 ELSE GaussTable[n]

\* Vec::reserve(additional): nothing to do when the spare capacity suffices,
\* otherwise the Vec grows to hold len + additional elements and panics when
\* that exceeds the allocation limit.
reserve_panics(len, capacity, additional) ==
    IF capacity - len >= additional
    THEN FALSE
    ELSE len + additional > AllocLimit

\* A slip in the seed array: [3, 2] instead of [2, 3].
get_basic_primes_reversed(known_primes, max) ==
    IF Len(known_primes) < 2
    THEN LET basic == SelectSeq(<<3, 2>>, LAMBDA n : n < max)
         IN  [known_primes |-> basic, found |-> basic]
    ELSE [known_primes |-> known_primes, found |-> <<>>]

\* [2, 3].iter().cloned().filter(|n| *n < max).map(|n| { found(n); n }).collect()
\* replaces the list when it holds fewer than two elements.
get_basic_primes(known_primes, max) ==
    IF Len(known_primes) < 2
    THEN LET basic == SelectSeq(<<2, 3>>, LAMBDA n : n < max)
         IN  [known_primes |-> basic, found |-> basic]
    ELSE [known_primes |-> known_primes, found |-> <<>>]

\* for n in (first..max).step_by(2) { if test(n, known_primes) { push; found } }
\* with test = par_is_prime when par, is_prime otherwise.
RECURSIVE generator_loop(_, _, _, _, _)
generator_loop(n, max, known_primes, found_log, par) ==
    IF n >= max
    THEN [status |-> "returned", known_primes |-> known_primes, found |-> found_log]
    ELSE IF (IF par THEN par_is_prime(n, known_primes) ELSE is_prime(n, known_primes))
         THEN generator_loop(n + 2, max, Append(known_primes, n),
                             Append(found_log, n), par)
         ELSE generator_loop(n + 2, max, known_primes, found_log, par)

\* The body shared by prime_generator_map and par_prime_generator_map, with
\* hint the value gauss_function(max) yielded.  slack is the spare capacity
\* of the Vec when reserve is reached.
generator_with_hint(max, known_primes, slack, par, hint) ==
    LET basic == get_basic_primes(known_primes, max)
        len == Len(basic.known_primes)
        capacity == len + slack
        additional == saturating_sub(hint, capacity)
    IN  IF reserve_panics(len, capacity, additional)
        THEN [status |-> "panicked", known_primes |-> basic.known_primes,
              found |-> basic.found]
        ELSE generator_loop(last_or_1(basic.known_primes) + 2, max,
                            basic.known_primes, basic.found, par)

\* known_primes.reserve((gauss_function(max) as usize).saturating_sub(capacity))
sequential_generator(max, known_primes, slack, par) ==
    generator_with_hint(max, known_primes, slack, par, gauss_function(max))

prime_generator_map(max, known_primes, slack) ==
    sequential_generator(max, known_primes, slack, FALSE)

par_prime_generator_map(max, known_primes, slack) ==
    sequential_generator(max, known_primes, slack, TRUE)

\* multi_prime_generator_map up to the parallel filter: seeding of 2 and 3,
\* then the single-threaded fill up to sqrt(max) unless the list reaches it.
multi_entry(max, known_primes, slack) ==
    LET basic == get_basic_primes(known_primes, max)
        sqr == integer_sqrt(max)
        last_prime == last_or_1(basic.known_primes)
    IN  IF sqr <= last_prime
        THEN [status |-> "running", known_primes |-> basic.known_primes,
              found |-> basic.found, start_from |-> last_prime]
        ELSE LET seeded == prime_generator_map(sqr, basic.known_primes, slack)
             IN  [status |-> IF seeded.status = "panicked" THEN "panicked" ELSE "running",
                  known_primes |-> seeded.known_primes,
                  found |-> basic.found \o seeded.found,
                  start_from |-> sqr]

\* A slip in the Less arm: the chunks start after sqr although the list
\* already reaches beyond it.
chunks_start_from_sqr(basic, chunk_size, slack) ==
    LET sqr == integer_sqrt(chunk_size)
        last_prime == last_or_1(basic.known_primes)
    IN  IF sqr <= last_prime
        THEN [status |-> "running", known_primes |-> basic.known_primes,
              found |-> basic.found, start_from |-> sqr]
        ELSE LET seeded == prime_generator_map(sqr, basic.known_primes, slack)
             IN  [status |-> IF seeded.status = "panicked"
                             THEN "panicked" ELSE "running",
                  known_primes |-> seeded.known_primes,
                  found |-> basic.found \o seeded.found,
                  start_from |-> sqr]

\* let sqr = chunk_size.integer_sqrt(); let start_from = match sqr.cmp(&last_prime)
\* { Less => last_prime, Equal => sqr, Greater => { seed up to sqr; sqr } }
chunks_start(basic, chunk_size, slack) ==
    LET sqr == integer_sqrt(chunk_size)
        last_prime == last_or_1(basic.known_primes)
    IN  IF sqr < last_prime
        THEN [status |-> "running", known_primes |-> basic.known_primes,
              found |-> basic.found, start_from |-> last_prime]
        ELSE IF sqr = last_prime
        THEN [status |-> "running", known_primes |-> basic.known_primes,
              found |-> basic.found, start_from |-> sqr]
        ELSE LET seeded == prime_generator_map(sqr, basic.known_primes, slack)
             IN  [status |-> IF seeded.status = "panicked"
                             THEN "panicked" ELSE "running",
                  known_primes |-> seeded.known_primes,
                  found |-> basic.found \o seeded.found,
                  start_from |-> sqr]

\* A slip in the statement order: 2 and 3 are seeded before the assertion.
chunks_entry_seed_first(max, known_primes, chunk_size, slack) ==
    LET basic == get_basic_primes(known_primes, max)
    IN  IF chunk_size = 0
        THEN [status |-> "panicked", known_primes |-> basic.known_primes,
              found |-> basic.found, start_from |-> 0]
        ELSE chunks_start(basic, chunk_size, slack)

\* multi_prime_generator_map_chunks up to the chunk loop: the assertion on
\* chunk_size, the seeding of 2 and 3, then the single-threaded fill up to
\* sqrt(chunk_size) unless the list reaches it.
chunks_entry(max, known_primes, chunk_size, slack) ==
    IF chunk_size = 0
    THEN [status |-> "panicked", known_primes |-> known_primes, found |-> <<>>,
          start_from |-> 0]
    ELSE chunks_start(get_basic_primes(known_primes, max), chunk_size, slack)

\* The pieces rayon splits the range lo..hi into: worker w of Workers tests
\* the candidates piece_lo(lo, hi, w) .. piece_hi(lo, hi, w) - 1 in order.
range_len(lo, hi) == IF hi > lo THEN hi - lo ELSE 0
piece_lo(lo, hi, w) == lo + ((w - 1) * range_len(lo, hi)) \div Workers
piece_hi(lo, hi, w) == lo + (w * range_len(lo, hi)) \div Workers

\* .filter(|n| n % 2 != 0 && is_prime(*n, known_primes.as_slice()))
survives(n, known_primes) == n % 2 # 0 /\ is_prime(n, known_primes)

\* .collect::<Vec<u64>>(): rayon's collect keeps the order of the range
\* whatever the order in which the workers finished.
RECURSIVE collect(_)
collect(S) ==
    IF S = {} THEN <<>>
    ELSE LET m == CHOOSE x \in S : \A y \in S : x <= y
         IN  <<m>> \o collect(S \ {m})

\* ------------------------------------------- chunked generator with hooks
\* generate_chunks(until, known_primes, start_from, chunk_size, pre_cycle,
\* post_cycle), the generator examples/chunk_multithreaded_generator.rs
\* calls as par_prime_generator_map_chunks(max, Vec::new(), chunk_size, 0,
\* |_, _| true, |arr| ...).  Its body is not part of the sources at hand; it
\* is modelled from its design description (section 4.2 and 4.3).

\* min(start + chunk_size, until)
cycle_end(start, chunk_size, until) ==
    IF start + chunk_size < until THEN start + chunk_size ELSE until

\* The first odd candidate at or after lo.
first_odd(lo) == IF lo % 2 = 0 THEN lo + 1 ELSE lo

\* Section 4.2, the scan of prime_generator_map(until, known_primes,
\* start_from, found): the odd candidates from max(start_from,
\* last_known + 2) up to until, each tested with the sequential oracle.
range_scan(until, known_primes, start_from) ==
    LET next == last_or_1(known_primes) + 2
        first == first_odd(IF start_from > next THEN start_from ELSE next)
    IN  generator_loop(first, until, known_primes, <<>>, FALSE).known_primes

\* The parallel filter of the odd candidates of lo..hi - 1 against the
\* prefix of the primes <= bound (the no-bound oracle path); the survivors
\* are appended in one batch.
wide_filter(lo, hi, known_primes, bound) ==
    LET prefix == SelectSeq(known_primes, LAMBDA p : p <= bound)
    IN  collect({c \in lo..(hi - 1) :
                    /\ c % 2 # 0
                    /\ c > 1
                    /\ \A i \in 1..Len(prefix) : c % prefix[i] # 0})

\* Section 4.3 step 3, the first chunk: the two-phase generator of section
\* 4.2 over start_from..end: 2 and 3 are seeded if below end, phase 1
\* extends the list sequentially up to sqrt(end), phase 2 filters the rest
\* against that prefix.
first_chunk(known_primes, start_from, end) ==
    LET basic == get_basic_primes(known_primes, end).known_primes
        sqr == integer_sqrt(end)
        until1 == IF sqr + 1 < end THEN sqr + 1 ELSE end
        phase1 == range_scan(until1, basic, start_from)
        after == last_or_1(phase1) + 1
        lo == IF start_from > after THEN start_from ELSE after
    IN  phase1 \o wide_filter(lo, end, phase1, sqr)

\* Section 4.3 step 5, a later chunk: the odd candidates of start..end - 1
\* against the prefix bounded once for the chunk.
later_chunk(known_primes, start, end) ==
    known_primes \o wide_filter(start, end, known_primes, integer_sqrt(end))

\* A slip in the order: the chunk is appended before pre_cycle's answer is
\* looked at.
cycle_checked_late(known_primes, start, end, first, go) ==
    IF first THEN first_chunk(known_primes, start, end)
    ELSE later_chunk(known_primes, start, end)

\* Steps 2 to 5 for one chunk: pre_cycle(start, end) answered go; on false
\* the list is returned unmodified, otherwise the chunk is appended.
cycle(known_primes, start, end, first, go) ==
    IF ~go THEN known_primes
    ELSE IF first THEN first_chunk(known_primes, start, end)
    ELSE later_chunk(known_primes, start, end)

\* The whole run with a pre_cycle that always answers true.
RECURSIVE generate_chunks(_, _, _, _, _)
generate_chunks(until, known_primes, start, chunk_size, first) ==
    LET end == cycle_end(start, chunk_size, until)
        out == cycle(known_primes, start, end, first, TRUE)
    IN  IF end < until
        THEN generate_chunks(until, out, end, chunk_size, FALSE)
        ELSE out

\* --------------------------------------------------------- reference, inputs
\* Primality by definition, the reference the oracle is compared with.
IsPrimeRef(n) == n >= 2 /\ \A d \in 2..(n - 1) : n % d # 0

\* The ascending list of all primes p with lo <= p and p < hi.
PrimesBetween(lo, hi) == collect({p \in lo..(hi - 1) : IsPrimeRef(p)})
PrimesBelow(hi) == PrimesBetween(0, hi)

\* Largest bound of a gapless prime prefix supplied by a caller.
MaxKnown == 7

\* Gapless ascending prefixes of the primes: [], [2], [2,3], [2,3,5], ...
PrimePrefixes == {PrimesBelow(b + 1) : b \in 0..MaxKnown}

\* Lists that break the documented precondition: unsorted, or with a gap.
InvalidLists == {<<3, 2>>, <<2, 3, 7>>, <<2, 5, 3>>}

InputLists == PrimePrefixes \cup InvalidLists

ChunkSizes(m) == (0..MaxChunk) \cup {m, m + ChunkExtra}

Generators == {"prime_generator_map", "par_prime_generator_map",
               "multi_prime_generator_map", "multi_prime_generator_map_chunks"}
Oracles == {"is_prime", "par_is_prime"}

\* ------------------------------------------------------------------- state
VARIABLES
    pc,             \* "idle", "any", "filter", "chunks", "chunk_filter",
                    \* "pre_cycle", "cancelled", "file_loop", "file_chunk",
                    \* "done", "returned", "panicked"
    fn,             \* the function being called
    max,            \* its max argument
    n,              \* the candidate of an oracle call
    chunk_size,     \* the chunk_size argument of the chunked generator
    input,          \* the known_primes argument as the caller passed it
    known_primes,   \* the list the call owns
    found,          \* the values found was invoked with, in order of invocation
    ret,            \* the boolean an oracle call returned
    current_number, \* start of the current chunk / of the wide filter / of
                    \* the indices `any` tests
    chunk_end,      \* end (exclusive) of the range under test
    cursor,         \* per worker: the next candidate (index) of its piece
    new_primes,     \* survivors of the parallel filter, before collect
    prior,          \* the calls whose result was fed into this one
    any_hit,        \* par_is_prime: a worker of `any` has found a divisor
    running,        \* file generator: the flag the Ctrl-C handler clears
    file            \* file generator: the lines of primes.txt on disk

vars == <<pc, fn, max, n, chunk_size, input, known_primes, found, ret,
          current_number, chunk_end, cursor, new_primes, prior, any_hit,
          running, file>>

NoWorkers == [w \in 1..Workers |-> 0]

Init ==
    /\ pc = "idle"
    /\ fn = "none"
    /\ max = 0
    /\ n = 0
    /\ chunk_size = 0
    /\ input = <<>>
    /\ known_primes = <<>>
    /\ found = <<>>
    /\ ret = FALSE
    /\ current_number = 0
    /\ chunk_end = 0
    /\ cursor = NoWorkers
    /\ new_primes = {}
    /\ prior = <<>>
    /\ any_hit = FALSE
    /\ running = TRUE
    /\ file = <<>>

\* ----------------------------------------------------------------- actions
\* is_prime(nn, list) / par_is_prime(nn, list), one call from its entry to
\* its return.
OracleReturn(f, nn, list) ==
    /\ fn' = f
    /\ n' = nn
    /\ input' = list
    /\ known_primes' = list
    /\ ret' = IF f = "is_prime" THEN is_prime(nn, list) ELSE par_is_prime(nn, list)
    /\ pc' = "returned"
    /\ UNCHANGED <<running, file, any_hit,
                   max, chunk_size, found, current_number, chunk_end, cursor,
                   new_primes, prior>>

CallOracle ==
    /\ pc = "idle"
    /\ \E f \in Oracles, nn \in 0..MaxN, list \in InputLists : OracleReturn(f, nn, list)

\* par_is_prime(nn, list) up to the fork of
\* known_primes[0..last_index].par_iter().any(|i| n % i == 0): 0 and 1 are
\* answered at once, otherwise the prefix is split into one piece per worker.
\* current_number..chunk_end - 1 are the (1-based) indices under test.
ParAnyFork ==
    /\ pc = "idle"
    /\ \E nn \in 0..MaxN, list \in InputLists :
          /\ fn' = "par_is_prime"
          /\ n' = nn
          /\ input' = list
          /\ known_primes' = list
          /\ IF nn = 0 \/ nn = 1
             THEN /\ pc' = "returned"
                  /\ ret' = FALSE
                  /\ UNCHANGED <<current_number, chunk_end, cursor>>
             ELSE LET last == last_index(list, integer_sqrt(nn))
                  IN  /\ pc' = "any"
                      /\ current_number' = 1
                      /\ chunk_end' = last + 1
                      /\ cursor' = [w \in 1..Workers |-> piece_lo(1, last + 1, w)]
                      /\ UNCHANGED ret
    /\ any_hit' = FALSE
    /\ UNCHANGED <<running, file, max, chunk_size, found, new_primes, prior>>

\* One worker applies |i| n % i == 0 to the next element of its piece.  A
\* worker that was already in its test when another reported a match still
\* finishes it.
ParAnyTest(w) ==
    /\ pc = "any"
    /\ cursor[w] < piece_hi(current_number, chunk_end, w)
    /\ cursor' = [cursor EXCEPT ![w] = @ + 1]
    /\ any_hit' = (any_hit \/ n % known_primes[cursor[w]] = 0)
    /\ UNCHANGED <<running, file,
                   pc, fn, max, n, chunk_size, input, known_primes, found, ret,
                   current_number, chunk_end, new_primes, prior>>

\* `any` answers and par_is_prime returns its negation.
ParAnyJoin ==
    /\ pc = "any"
    /\ any_done(any_hit, {w \in 1..Workers :
                            cursor[w] < piece_hi(current_number, chunk_end, w)})
    /\ ret' = ~any_hit
    /\ pc' = "returned"
    /\ UNCHANGED <<running, file, fn, max, n, chunk_size, input, known_primes, found,
                   current_number, chunk_end, cursor, new_primes, prior, any_hit>>

\* ignorant_is_prime(nn, list) for a gapless prime prefix, from its entry to
\* its return.
CallIgnorant ==
    /\ pc = "idle"
    /\ \E nn \in 0..MaxN, list \in PrimePrefixes :
          /\ fn' = "ignorant_is_prime"
          /\ n' = nn
          /\ input' = list
          /\ known_primes' = list
          /\ ret' = ignorant_is_prime(nn, list)
          /\ pc' = "returned"
    /\ UNCHANGED <<running, file, any_hit,
                   max, chunk_size, found, current_number, chunk_end, cursor,
                   new_primes, prior>>

\* The state a sequential generator call ends in.
Finish(f, m, list, out) ==
    /\ fn' = f
    /\ max' = m
    /\ input' = list
    /\ known_primes' = out.known_primes
    /\ found' = out.found
    /\ pc' = out.status
    /\ UNCHANGED <<running, file, any_hit,
                   n, chunk_size, ret, current_number, chunk_end, cursor, new_primes>>

\* prime_generator_map(m, list, found), from its entry to its return or panic.
CallPrimeGenerator ==
    /\ pc = "idle"
    /\ \E m \in 0..MaxMax, list \in InputLists, slack \in 0..MaxSlack :
          Finish("prime_generator_map", m, list, prime_generator_map(m, list, slack))
    /\ UNCHANGED prior

\* par_prime_generator_map(m, list, found).
CallParPrimeGenerator ==
    /\ pc = "idle"
    /\ \E m \in 0..MaxMax, list \in InputLists, slack \in 0..MaxSlack :
          Finish("par_prime_generator_map", m, list,
                 par_prime_generator_map(m, list, slack))
    /\ UNCHANGED prior

\* The caller feeds the list a sequential call returned into a further call
\* of prime_generator_map with a larger max.
Resume ==
    /\ pc = "returned"
    /\ fn = "prime_generator_map"
    /\ Len(prior) < MaxResume
    /\ prior' = Append(prior, [fn |-> fn, max |-> max, input |-> input])
    /\ \E m \in (max + 1)..MaxMax, slack \in 0..MaxSlack :
          Finish("prime_generator_map", m, known_primes,
                 prime_generator_map(m, known_primes, slack))

\* multi_prime_generator_map(m, list, found) up to the fork of the wide
\* parallel filter over (start_from + 1)..max.
MultiFork(m, list, slack) ==
    /\ LET e == multi_entry(m, list, slack)
       IN  /\ fn' = "multi_prime_generator_map"
           /\ max' = m
           /\ input' = list
           /\ known_primes' = e.known_primes
           /\ found' = e.found
           /\ IF e.status = "panicked"
              THEN /\ pc' = "panicked"
                   /\ UNCHANGED <<current_number, chunk_end, cursor>>
              ELSE /\ pc' = "filter"
                   /\ current_number' = e.start_from + 1
                   /\ chunk_end' = m
                   /\ cursor' = [w \in 1..Workers |-> piece_lo(e.start_from + 1, m, w)]
    /\ new_primes' = {}
    /\ UNCHANGED <<running, file, any_hit, n, chunk_size, ret, prior>>

CallMulti ==
    /\ pc = "idle"
    /\ \E m \in 0..MaxMax, list \in PrimePrefixes, slack \in 0..MaxSlack :
          MultiFork(m, list, slack)

\* One worker of the wide filter tests its next candidate; a survivor is
\* passed to found by that worker at once (the map after the filter).
FilterTest(w) ==
    /\ pc = "filter"
    /\ cursor[w] < piece_hi(current_number, chunk_end, w)
    /\ cursor' = [cursor EXCEPT ![w] = @ + 1]
    /\ IF survives(cursor[w], known_primes)
       THEN /\ new_primes' = new_primes \cup {cursor[w]}
            /\ found' = Append(found, cursor[w])
       ELSE UNCHANGED <<new_primes, found>>
    /\ UNCHANGED <<running, file, any_hit,
                   pc, fn, max, n, chunk_size, input, known_primes, ret,
                   current_number, chunk_end, prior>>

\* A slip in the join: it waits for the first worker only.
FirstWorkerDone ==
    \E w \in 1..Workers : cursor[w] >= piece_hi(current_number, chunk_end, w)

\* The join of a parallel phase: every worker has exhausted its piece.
AllTested ==
    \A w \in 1..Workers : cursor[w] >= piece_hi(current_number, chunk_end, w)

\* The join of the wide filter: collect, known_primes.extend(new_primes), return.
FilterJoin ==
    /\ pc = "filter"
    /\ AllTested
    /\ known_primes' = known_primes \o collect(new_primes)
    /\ new_primes' = {}
    /\ pc' = "returned"
    /\ UNCHANGED <<running, file, any_hit,
                   fn, max, n, chunk_size, input, found, ret, current_number,
                   chunk_end, cursor, prior>>

\* multi_prime_generator_map_chunks(m, list, c, found) up to its chunk loop.
ChunksEnter(m, list, c, slack) ==
    /\ LET e == chunks_entry(m, list, c, slack)
       IN  /\ fn' = "multi_prime_generator_map_chunks"
           /\ max' = m
           /\ chunk_size' = c
           /\ input' = list
           /\ known_primes' = e.known_primes
           /\ found' = e.found
           /\ IF e.status = "panicked"
              THEN /\ pc' = "panicked"
                   /\ UNCHANGED current_number
              ELSE /\ pc' = "chunks"
                   /\ current_number' = e.start_from + 1
    /\ UNCHANGED <<running, file, any_hit, n, ret, chunk_end, cursor, new_primes, prior>>

CallChunks ==
    /\ pc = "idle"
    /\ \E m \in 0..MaxMax, list \in PrimePrefixes, slack \in 0..MaxSlack :
          \E c \in ChunkSizes(m) : ChunksEnter(m, list, c, slack)

\* The chunk loop yields the next current_number: the parallel filter over
\* current_number..min(current_number + chunk_size, max) is forked.  The sum
\* is a plain `+` on u64: when it exceeds word_max the build decides, a
\* panic with overflow checks (debug), the wrapped sum without (release).
ChunkBeginAt(word_max, overflow_checks) ==
    /\ pc = "chunks"
    /\ current_number < max
    /\ LET sum == wrapping_add(current_number, chunk_size, word_max)
           end == IF sum.value < max THEN sum.value ELSE max
       IN  IF sum.overflow /\ overflow_checks
           THEN /\ pc' = "panicked"
                /\ UNCHANGED <<chunk_end, cursor>>
           ELSE /\ pc' = "chunk_filter"
                /\ chunk_end' = end
                /\ cursor' = [w \in 1..Workers |-> piece_lo(current_number, end, w)]
    /\ new_primes' = {}
    /\ UNCHANGED <<running, file, any_hit,
                   fn, max, n, chunk_size, input, known_primes, found, ret,
                   current_number, prior>>

ChunkBegin == \E overflow_checks \in BOOLEAN : ChunkBeginAt(U64Max, overflow_checks)

\* One worker of the chunk's filter tests its next candidate.
ChunkTest(w) ==
    /\ pc = "chunk_filter"
    /\ cursor[w] < piece_hi(current_number, chunk_end, w)
    /\ cursor' = [cursor EXCEPT ![w] = @ + 1]
    /\ new_primes' = IF survives(cursor[w], known_primes)
                     THEN new_primes \cup {cursor[w]} ELSE new_primes
    /\ UNCHANGED <<running, file, any_hit,
                   pc, fn, max, n, chunk_size, input, known_primes, found, ret,
                   current_number, chunk_end, prior>>

\* The join of a chunk: collect, found for each new prime in order,
\* known_primes.extend(new_primes), and the loop steps by chunk_size.
ChunkJoin ==
    /\ pc = "chunk_filter"
    /\ AllTested
    /\ found' = found \o collect(new_primes)
    /\ known_primes' = known_primes \o collect(new_primes)
    /\ new_primes' = {}
    /\ current_number' = current_number + chunk_size
    /\ pc' = "chunks"
    /\ UNCHANGED <<running, file, any_hit,
                   fn, max, n, chunk_size, input, ret, chunk_end, cursor, prior>>

\* The chunk range is exhausted: known_primes is returned.
ChunksReturn ==
    /\ pc = "chunks"
    /\ current_number >= max
    /\ pc' = "returned"
    /\ UNCHANGED <<running, file, any_hit,
                   fn, max, n, chunk_size, input, known_primes, found, ret,
                   current_number, chunk_end, cursor, new_primes, prior>>

Next ==
    \/ CallOracle
    \/ ParAnyFork
    \/ \E w \in 1..Workers : ParAnyTest(w)
    \/ ParAnyJoin
    \/ CallIgnorant
    \/ CallPrimeGenerator
    \/ CallParPrimeGenerator
    \/ Resume
    \/ CallMulti
    \/ \E w \in 1..Workers : FilterTest(w)
    \/ FilterJoin
    \/ CallChunks
    \/ ChunkBegin
    \/ \E w \in 1..Workers : ChunkTest(w)
    \/ ChunkJoin
    \/ ChunksReturn

Spec == Init /\ [][Next]_vars

\* ------------------------------------------------------------ chained calls
\* A caller that starts from the empty list and feeds the list each generator
\* call returned into the next call, of any of the three generators.  At
\* "idle" known_primes is the list the caller holds.
ChainPrimeGenerator ==
    /\ pc = "idle"
    /\ \E m \in 0..ChainMax, slack \in 0..MaxSlack :
          Finish("prime_generator_map", m, known_primes,
                 prime_generator_map(m, known_primes, slack))
    /\ UNCHANGED prior

ChainMulti ==
    /\ pc = "idle"
    /\ \E m \in 0..ChainMax, slack \in 0..MaxSlack :
          MultiFork(m, known_primes, slack)

ChainChunks ==
    /\ pc = "idle"
    /\ \E m \in 0..ChainMax, slack \in 0..MaxSlack :
          \E c \in (1..ChainChunk) \cup {m + ChunkExtra} :
              ChunksEnter(m, known_primes, c, slack)

\* The call has returned its Vec: the caller holds it for the next call.
Handoff ==
    /\ pc = "returned"
    /\ pc' = "idle"
    /\ fn' = "none"
    /\ max' = 0
    /\ chunk_size' = 0
    /\ input' = <<>>
    /\ found' = <<>>
    /\ current_number' = 0
    /\ chunk_end' = 0
    /\ cursor' = NoWorkers
    /\ UNCHANGED <<running, file, any_hit, n, known_primes, ret, new_primes, prior>>

NextChain ==
    \/ ChainPrimeGenerator
    \/ ChainMulti
    \/ \E w \in 1..Workers : FilterTest(w)
    \/ FilterJoin
    \/ ChainChunks
    \/ ChunkBegin
    \/ \E w \in 1..Workers : ChunkTest(w)
    \/ ChunkJoin
    \/ ChunksReturn
    \/ Handoff

SpecChain == Init /\ [][NextChain]_vars

\* ------------------------------------------------- near the integer maximum
\* The chunked generator on a scaled-down unsigned type of NarrowBits bits:
\* max, chunk_size and the candidates are values of that type, and chunk
\* sizes up to its maximum are passed.
NarrowChunks == (1..ChainChunk) \cup ((NarrowMax - NarrowSpan)..NarrowMax)

CallChunksNarrow ==
    /\ pc = "idle"
    /\ \E m \in 0..MaxMax, list \in PrimePrefixes, slack \in 0..MaxSlack :
          \E c \in NarrowChunks : ChunksEnter(m, list, c, slack)

ChunkBeginNarrow ==
    \E overflow_checks \in BOOLEAN : ChunkBeginAt(NarrowMax, overflow_checks)

NextNarrow ==
    \/ CallChunksNarrow
    \/ ChunkBeginNarrow
    \/ \E w \in 1..Workers : ChunkTest(w)
    \/ ChunkJoin
    \/ ChunksReturn

SpecNarrow == Init /\ [][NextNarrow]_vars

\* ------------------------------------------------------------ file generator
\* examples/file_generator.rs: primes.txt is read, the list is seeded anew or
\* imported from it, then chunks are tested and appended to the list and to
\* the file until the Ctrl-C handler has cleared the running flag.
\* chunk_size is a constant of the program (1_000_000); the model builds the
\* program with a smaller one, large enough for the seeded list to hold a
\* prime (isqrt(chunk_size) * 2 >= 3).
FileChunks == 4..FileChunk

\* let n_before_multithreading = chunk_size.integer_sqrt() * 2;
n_before_multithreading(c) == integer_sqrt(c) * 2

\* main up to the chunk loop, for the program built with chunk_size c and
\* the file as it is on disk: a file with fewer lines than
\* gauss_function(n_before_multithreading) is rewritten with
\* prime_generator(n_before_multithreading, Vec::new()), any other file is
\* imported line by line; current_number = *primes.last().unwrap().
FileOpen(c) ==
    LET seed == Len(file) < gauss_function(n_before_multithreading(c))
        seeded == prime_generator_map(n_before_multithreading(c), <<>>, 0)
        primes == IF seed THEN seeded.known_primes ELSE file
    IN  /\ fn' = "file_generator"
        /\ chunk_size' = c
        /\ running' = TRUE
        /\ input' = primes
        /\ known_primes' = primes
        /\ found' = <<>>
        /\ new_primes' = {}
        /\ cursor' = NoWorkers
        /\ chunk_end' = 0
        /\ IF seed /\ seeded.status = "panicked"
           THEN /\ pc' = "panicked"
                /\ file' = <<>>
                /\ UNCHANGED current_number
           ELSE /\ file' = primes
                /\ IF primes = <<>>
                   THEN /\ pc' = "panicked"
                        /\ UNCHANGED current_number
                   ELSE /\ pc' = "file_loop"
                        /\ current_number' = primes[Len(primes)]
        /\ UNCHANGED <<max, n, ret, any_hit>>

\* The program is started, no primes.txt existing yet.
FileStart ==
    /\ pc = "idle"
    /\ \E c \in FileChunks : FileOpen(c)
    /\ UNCHANGED prior

\* The program has ended and is started again on the file it left.
FileRestart ==
    /\ pc = "done"
    /\ Len(prior) < FileRuns
    /\ prior' = Append(prior, [fn |-> fn, max |-> current_number, input |-> input])
    /\ FileOpen(chunk_size)

\* Ctrl-C: the handler thread stores false into the flag, at any moment.
Interrupt ==
    /\ pc \in {"file_loop", "file_chunk"}
    /\ running
    /\ running' = FALSE
    /\ UNCHANGED <<pc, fn, max, n, chunk_size, input, known_primes, found, ret,
                   current_number, chunk_end, cursor, new_primes, prior, any_hit,
                   file>>

\* while running.load(..) holds: last_number = current_number
\* .saturating_add(chunk_size), and the parallel filter over
\* current_number..last_number is forked.  No chunk is begun from FileMax on.
FileChunkBegin ==
    /\ pc = "file_loop"
    /\ running
    /\ current_number < FileMax
    /\ LET last_number == saturating_add(current_number, chunk_size)
       IN  /\ chunk_end' = last_number
           /\ cursor' = [w \in 1..Workers |->
                            piece_lo(current_number, last_number, w)]
    /\ new_primes' = {}
    /\ pc' = "file_chunk"
    /\ UNCHANGED <<fn, max, n, chunk_size, input, known_primes, found, ret,
                   current_number, prior, any_hit, running, file>>

\* One worker tests its next candidate:
\* .filter(|n| n % 2 != 0 && is_prime(*n, primes.as_slice()))
FileChunkTest(w) ==
    /\ pc = "file_chunk"
    /\ cursor[w] < piece_hi(current_number, chunk_end, w)
    /\ cursor' = [cursor EXCEPT ![w] = @ + 1]
    /\ new_primes' = IF survives(cursor[w], known_primes)
                     THEN new_primes \cup {cursor[w]} ELSE new_primes
    /\ UNCHANGED <<pc, fn, max, n, chunk_size, input, known_primes, found, ret,
                   current_number, chunk_end, prior, any_hit, running, file>>

\* A slip in the loop: the flag is looked at inside the chunk, and a chunk
\* under test when it was cleared is dropped.
FileChunkJoinOrAbandon ==
    /\ pc = "file_chunk"
    /\ AllTested \/ ~running
    /\ IF running
       THEN /\ known_primes' = known_primes \o collect(new_primes)
            /\ found' = found \o collect(new_primes)
            /\ file' = file \o collect(new_primes)
            /\ current_number' = current_number + chunk_size
            /\ pc' = "file_loop"
       ELSE /\ pc' = "done"
            /\ UNCHANGED <<known_primes, found, file, current_number>>
    /\ new_primes' = {}
    /\ UNCHANGED <<fn, max, n, chunk_size, input, ret, chunk_end, cursor, prior,
                   any_hit, running>>

\* The join of the chunk: collect, primes.extend(..) writing each new prime
\* as a line, append_buffer.flush(), current_number += chunk_size.
FileChunkJoin ==
    /\ pc = "file_chunk"
    /\ AllTested
    /\ known_primes' = known_primes \o collect(new_primes)
    /\ found' = found \o collect(new_primes)
    /\ file' = file \o collect(new_primes)
    /\ new_primes' = {}
    /\ current_number' = current_number + chunk_size
    /\ pc' = "file_loop"
    /\ UNCHANGED <<fn, max, n, chunk_size, input, ret, chunk_end, cursor, prior,
                   any_hit, running>>

\* running.load(..) is false at the head of the loop: "Done!", Ok(()).
FileDone ==
    /\ pc = "file_loop"
    /\ ~running
    /\ pc' = "done"
    /\ UNCHANGED <<fn, max, n, chunk_size, input, known_primes, found, ret,
                   current_number, chunk_end, cursor, new_primes, prior, any_hit,
                   running, file>>

NextFile ==
    \/ FileStart
    \/ FileRestart
    \/ Interrupt
    \/ FileChunkBegin
    \/ \E w \in 1..Workers : FileChunkTest(w)
    \/ FileChunkJoin
    \/ FileDone

SpecFile == Init /\ [][NextFile]_vars

\* ---------------------------------- chunked generator with hooks: the run
\* The call, up to its first chunk boundary: chunk_size = 0 is fatal.
CallGenerateChunks ==
    /\ pc = "idle"
    /\ \E u \in 0..CycleMax, c \in 0..CycleChunk :
          /\ fn' = "generate_chunks"
          /\ max' = u
          /\ chunk_size' = c
          /\ pc' = IF c = 0 THEN "panicked" ELSE "pre_cycle"
          /\ chunk_end' = IF c = 0 THEN 0 ELSE cycle_end(0, c, u)
    /\ UNCHANGED <<running, file, any_hit,
                   n, input, known_primes, found, ret, current_number, cursor,
                   new_primes, prior>>

\* One chunk boundary: pre_cycle(start, end) answers; on false the run stops
\* with the list as it is, on true the chunk is tested and appended,
\* post_cycle receives the new primes, and the frontier advances to end.
Cycle ==
    /\ pc = "pre_cycle"
    /\ \E go \in BOOLEAN :
          LET out == cycle(known_primes, current_number, chunk_end,
                           current_number = 0, go)
          IN  /\ known_primes' = out
              /\ found' = found \o SubSeq(out, Len(known_primes) + 1, Len(out))
              /\ IF ~go
                 THEN /\ pc' = "cancelled"
                      /\ UNCHANGED <<current_number, chunk_end>>
                 ELSE /\ current_number' = chunk_end
                      /\ chunk_end' = cycle_end(chunk_end, chunk_size, max)
                      /\ pc' = IF chunk_end < max THEN "pre_cycle" ELSE "returned"
    /\ UNCHANGED <<running, file, any_hit,
                   fn, max, n, chunk_size, input, ret, cursor, new_primes, prior>>

NextCycle ==
    \/ CallGenerateChunks
    \/ Cycle

SpecCycle == Init /\ [][NextCycle]_vars

\* ------------------------------------------------------------- properties
Range(s) == {s[i] : i \in 1..Len(s)}
Count(s, v) == Cardinality({i \in 1..Len(s) : s[i] = v})
Ascending(s) == \A i \in 1..(Len(s) - 1) : s[i] < s[i + 1]
SamePrimes(a, b) ==
    /\ Len(a) = Len(b)
    /\ \A v \in Range(a) \cup Range(b) : Count(a, v) = Count(b, v)

\* list holds every prime <= isqrt(nn).
SqrtComplete(list, nn) ==
    \A p \in 2..integer_sqrt(nn) : IsPrimeRef(p) => p \in Range(list)

\* list is the ascending list of all primes up to some bound >= isqrt(nn).
CoversSqrt(list, nn) ==
    \E b \in integer_sqrt(nn)..MaxN : list = PrimesBelow(b + 1)

Ended == pc \in {"returned", "panicked"}
FirstCall == prior = <<>>

\* C1: given the ascending list of all primes up to a bound >= isqrt(n),
\* is_prime and par_is_prime return true exactly when n is prime; both
\* return false for 0 and 1 and for the square of a listed prime.
OracleCorrect ==
    (fn \in Oracles /\ pc = "returned" /\ CoversSqrt(input, n))
        => /\ ret = IsPrimeRef(n)
           /\ (n \in {0, 1} => ~ret)
           /\ ((\E i \in 1..Len(input) : input[i] * input[i] = n) => ~ret)

OracleSquareHit ==
    /\ pc = "returned"
    /\ fn = "is_prime"
    /\ n = 49
    /\ input = <<2, 3, 5, 7>>
    /\ ret = FALSE

\* C2: prime_generator(max, []) returns normally for every max, with exactly
\* the primes below max in ascending order.
PrimeGeneratorFromEmpty ==
    (fn = "prime_generator_map" /\ FirstCall /\ input = <<>> /\ Ended)
        => /\ pc = "returned"
           /\ known_primes = PrimesBelow(max)

\* C3: resume law: prime_generator(k, []) followed by
\* prime_generator(max, result) ends as prime_generator(max, []) called
\* directly does, for every k < max.  A first call that panics leaves the
\* caller with no list to resume from.
ResumeLaw ==
    /\ (fn = "prime_generator_map" /\ FirstCall /\ input = <<>> /\ pc = "panicked")
          => \A m \in (max + 1)..MaxMax :
                prime_generator_map(m, <<>>, 0).status = "panicked"
    /\ (fn = "prime_generator_map" /\ Len(prior) = 1 /\ prior[1].input = <<>> /\ Ended)
          => LET direct == prime_generator_map(max, <<>>, 0)
             IN  /\ pc = direct.status
                 /\ pc = "returned" => known_primes = direct.known_primes

\* C4: chunking invariance: for every chunk_size >= 1 the chunked generator
\* called with the empty list returns, once sorted, the list the non-chunked
\* prime_generator(max, []) returns.
ChunkingInvariance ==
    (fn = "multi_prime_generator_map_chunks" /\ pc = "returned"
        /\ input = <<>> /\ chunk_size >= 1)
        => LET direct == prime_generator_map(max, <<>>, 0)
           IN  direct.status = "returned"
                  => SamePrimes(known_primes, direct.known_primes)

\* C5: for every gapless prime prefix the two-phase multi_prime_generator
\* returns the primes the sequential prime_generator returns.
MultiEqualsSequential ==
    (fn = "multi_prime_generator_map" /\ pc = "returned" /\ input \in PrimePrefixes)
        => LET direct == prime_generator_map(max, input, 0)
           IN  direct.status = "returned" => known_primes = direct.known_primes

\* The candidates a worker is about to test with is_prime.
UnderTest ==
    {cursor[w] : w \in {v \in 1..Workers :
                          /\ cursor[v] < piece_hi(current_number, chunk_end, v)
                          /\ cursor[v] % 2 # 0}}

\* C6: sqrt-completeness: whenever a candidate of a chunk is tested,
\* known_primes holds every prime <= isqrt(candidate).
SqrtCompleteWhenTested ==
    (pc = "chunk_filter" /\ input \in PrimePrefixes)
        => \A c \in UnderTest : SqrtComplete(known_primes, c)

\* C7: with chunk_size = 0 the chunked generator panics before anything
\* else: found is not invoked, 2 and 3 are not seeded, no chunk is begun.
ZeroChunkPanicsFirst ==
    (fn = "multi_prime_generator_map_chunks" /\ chunk_size = 0)
        => /\ pc = "panicked"
           /\ found = <<>>
           /\ known_primes = input
           /\ current_number = 0
           /\ chunk_end = 0
           /\ cursor = NoWorkers
           /\ new_primes = {}

ZeroChunkPanicked ==
    /\ pc = "panicked"
    /\ fn = "multi_prime_generator_map_chunks"
    /\ chunk_size = 0
    /\ max = 20
    /\ input = <<>>

\* The caller's list breaks the precondition of the call: it is not
\* ascending, or it lacks a prime the candidate (for a generator, some
\* candidate below max) needs.
InvalidInput ==
    \/ /\ fn \in Oracles
       /\ ~Ascending(input) \/ ~SqrtComplete(input, n)
    \/ /\ fn = "prime_generator_map"
       /\ FirstCall
       /\ input \in InvalidLists

UnchangedWhenListExceedsMax ==
    (fn \in Generators /\ FirstCall /\ pc # "idle"
        /\ (fn = "multi_prime_generator_map_chunks" => chunk_size >= 1)
        /\ input \in PrimePrefixes /\ Len(input) >= 1 /\ input[Len(input)] > max)
        => /\ pc # "panicked"
           /\ found = <<>>
           /\ pc = "returned" => known_primes = input

\* C10: found is invoked exactly once for each prime of the returned list
\* that was not in the input list, and never for a prime of the input list.
FoundOncePerNewPrime ==
    (fn \in Generators /\ pc = "returned")
        => \A v \in Range(found) \cup Range(known_primes) :
              Count(found, v) =
                  IF v \in Range(known_primes) \ Range(input) THEN 1 ELSE 0

\* C11: in a chain of generator calls that starts from the empty list and
\* feeds each returned list into the next call (any mix of prime_generator,
\* multi_prime_generator and the chunked generator, chunk_size >= 1), the
\* list is strictly ascending, hence free of duplicates, at every moment.
ChainAscending ==
    /\ Ascending(known_primes)
    /\ pc \in {"filter", "chunk_filter"}
          => Ascending(known_primes \o collect(new_primes))

\* A chunked call fed the list of an earlier call has appended to it.
ChainExtended ==
    /\ pc = "returned"
    /\ fn = "multi_prime_generator_map_chunks"
    /\ input = <<2, 3, 5>>
    /\ Len(known_primes) > Len(input)

\* C12: cancellation law: when pre_cycle answers false at the chunk boundary
\* b, the run stops without error and returns the list a run with until = b
\* returns: the chunks before b are kept, nothing of the cancelled chunk is
\* appended.
CancellationLaw ==
    (fn = "generate_chunks" /\ pc = "cancelled")
        => /\ known_primes = generate_chunks(current_number, <<>>, 0, chunk_size, TRUE)
           /\ found = known_primes
           /\ \A i \in 1..Len(known_primes) : known_primes[i] < current_number

\* Cancelled at the third boundary of 5-wide chunks, the earlier two kept.
CancelledAfterTwoChunks ==
    /\ pc = "cancelled"
    /\ fn = "generate_chunks"
    /\ chunk_size = 5
    /\ current_number = 10
    /\ max = 20
    /\ known_primes = <<2, 3, 5, 7>>

\* C13: near the maximum of the integer type the end of a chunk,
\* current_number + chunk_size, saturates or is clamped to max instead of
\* overflowing: the call does not fail and every chunk ends at
\* min(current_number + chunk_size, max).
ChunkEndSaturates ==
    (fn = "multi_prime_generator_map_chunks" /\ chunk_size >= 1)
        => /\ pc # "panicked"
           /\ pc = "chunk_filter"
                 => chunk_end = IF current_number + chunk_size < max
                                THEN current_number + chunk_size ELSE max

\* C14: the Gauss estimate is only a capacity hint: prime_generator_map ends
\* as it would with any other estimate, from 0 (nothing reserved) upwards:
\* it returns or not, and returns the same list, whatever the estimate.
GaussOnlyAHint ==
    (fn = "prime_generator_map" /\ FirstCall /\ Ended)
        => \A hint \in 0..MaxMax :
              LET other == generator_with_hint(max, input, 0, FALSE, hint)
              IN  /\ other.status = pc
                  /\ other.known_primes = known_primes

\* C15: for every n >= 0 and every gapless prime prefix, the empty list and
\* [2] included, ignorant_is_prime returns true exactly when n is prime.
IgnorantCorrect ==
    (fn = "ignorant_is_prime" /\ pc = "returned") => ret = IsPrimeRef(n)

\* 49 against [2]: the divisor 7 is reached by stepping past the list.
IgnorantBeyondList ==
    /\ pc = "returned"
    /\ fn = "ignorant_is_prime"
    /\ n = 49
    /\ input = <<2>>
    /\ ret = FALSE

\* C16: for every n and every ascending list, sqrt-complete or not,
\* par_is_prime returns what is_prime returns, whatever the order in which
\* the workers of `any` test their pieces and whichever reports first.
ParEqualsSequential ==
    (fn = "par_is_prime" /\ pc = "returned" /\ Ascending(input))
        => ret = is_prime(n, input)

\* 35 against [2, 3, 5, 7]: the second worker reports the divisor 5 before
\* the first worker has tested anything.
ParSecondWorkerFirst ==
    /\ pc = "returned"
    /\ fn = "par_is_prime"
    /\ n = 35
    /\ input = <<2, 3, 5, 7>>
    /\ any_hit
    /\ cursor[1] = 1
    /\ ret = FALSE

\* A worker of a generator's parallel test phase still has a candidate to
\* test against known_primes.
Reading ==
    /\ pc \in {"filter", "chunk_filter"}
    /\ \E w \in 1..Workers : cursor[w] < piece_hi(current_number, chunk_end, w)

\* C17: in multi_prime_generator_map and the chunked generator known_primes
\* is never modified while a worker of the test phase may read it, no other
\* chunk's phase begins meanwhile, and the list only ever changes by an
\* append at its end, after the phase has joined.
ReadOnlyWhileTesting ==
    [][ /\ Reading => /\ known_primes' = known_primes
                      /\ pc' = pc
                      /\ current_number' = current_number
                      /\ chunk_end' = chunk_end
        /\ (pc \in {"filter", "chunks", "chunk_filter"})
              => /\ Len(known_primes') >= Len(known_primes)
                 /\ SubSeq(known_primes', 1, Len(known_primes)) = known_primes
      ]_vars

\* In a chunk after the first, a worker still reads while a survivor awaits
\* the join.
ReadingWithSurvivors ==
    /\ Reading
    /\ pc = "chunk_filter"
    /\ input = <<>>
    /\ chunk_size = 2
    /\ known_primes = <<2, 3, 5>>
    /\ new_primes = {7}

\* C18: the chunks are half-open intervals of at most chunk_size candidates
\* that end at or below max, and together with the seeding phase they
\* classify every integer above the last supplied prime and below max
\* exactly once: no prime below the chunk loop's frontier is missing from
\* the list (none was skipped, isqrt(chunk_size) in particular) and none is
\* listed twice (none was tested twice).
ChunksCoverOnce ==
    (fn = "multi_prime_generator_map_chunks" /\ chunk_size >= 1
        /\ pc \in {"chunks", "chunk_filter", "returned"})
        => /\ pc = "chunk_filter"
                 => /\ current_number < chunk_end
                    /\ chunk_end - current_number <= chunk_size
                    /\ chunk_end <= max
           /\ \A p \in (last_or_1(input) + 1)..(max - 1) :
                 (p < current_number /\ IsPrimeRef(p)) => p \in Range(known_primes)
           /\ \A v \in Range(known_primes) : Count(known_primes, v) = 1

\* C19: for every max, every chunk_size >= 1 and every gapless prime prefix
\* the chunked generator runs to its return: at any moment the call either
\* has returned known_primes or is in its chunk loop with a step to take.
ChunksRunToReturn ==
    (fn = "multi_prime_generator_map_chunks" /\ chunk_size >= 1 /\ pc # "returned")
        => /\ pc \in {"chunks", "chunk_filter"}
           /\ ENABLED (\/ ChunkBeginNarrow
                       \/ \E w \in 1..Workers : ChunkTest(w)
                       \/ ChunkJoin
                       \/ ChunksReturn)

\* C20: in the sequential prime_generator_map, the seeding of 2 and 3
\* included, found is invoked in strictly ascending order, and when it is
\* invoked for p every prime below p has been reported before or was in the
\* (gapless) input list.
FoundAscendingComplete ==
    (fn = "prime_generator_map" /\ Ended
        /\ \E b \in 0..(MaxMax + 1) : input = PrimesBelow(b))
        => /\ Ascending(found)
           /\ \A i \in 1..Len(found) :
                 \A q \in 2..(found[i] - 1) :
                    IsPrimeRef(q)
                       => \/ q \in Range(input)
                          \/ \E j \in 1..(i - 1) : found[j] = q

\* Seeding and loop in one call: 2 and 3 first, then 5, 7, 11.
FoundSeedsThenLoop ==
    /\ pc = "returned"
    /\ fn = "prime_generator_map"
    /\ input = <<>>
    /\ max = 12
    /\ found = <<2, 3, 5, 7, 11>>

\* C21: the file generator consults the stop flag between chunks only: a
\* chunk under test when the flag is cleared can always go on, ends in its
\* join with its primes appended to the list and to the file, and after it
\* no chunk is begun: the next step from the loop head is the normal end.
StopOnlyBetweenChunks ==
    /\ [](pc = "file_chunk"
            => ENABLED (FileChunkJoin \/ \E w \in 1..Workers : FileChunkTest(w)))
    /\ [][ /\ pc = "file_chunk"
                => \/ /\ pc' = "file_chunk"
                      /\ known_primes' = known_primes
                      /\ file' = file
                   \/ /\ pc' = "file_loop"
                      /\ known_primes' = known_primes \o collect(new_primes)
                      /\ file' = file \o collect(new_primes)
           /\ (pc = "file_loop" /\ ~running) => pc' = "done"
         ]_vars

\* The flag was cleared in the middle of a chunk: a survivor awaits the join
\* and a worker still has candidates.
StoppedMidChunk ==
    /\ pc = "file_chunk"
    /\ ~running
    /\ new_primes # {}
    /\ ~AllTested

\* C22: called with the empty list, multi_prime_generator_map and the
\* chunked generator (chunk_size >= 1) never list a value >= max and never
\* invoke found with one, even when isqrt(chunk_size) is larger than max.
NothingAtOrAboveMax ==
    (fn \in {"multi_prime_generator_map", "multi_prime_generator_map_chunks"}
        /\ input = <<>>
        /\ (fn = "multi_prime_generator_map_chunks" => chunk_size >= 1))
        => \A v \in Range(known_primes) \cup Range(found) : v < max

\* C23: in the file generator, from the seeded or imported list on, the
\* list in memory and the lines of the file stay strictly ascending, and no
\* chunk appends a prime the run started with: the first chunk, which
\* starts at the last known prime, does not append that prime again.
FileAscending ==
    (fn = "file_generator" /\ pc # "panicked")
        => /\ Ascending(known_primes)
           /\ Ascending(file)
           /\ \A v \in Range(found) : v \notin Range(input)

====
